---------------------------- MODULE Spec2Model ----------------------------
(***************************************************************************)
(* find-amount (src/src/main.rs): read a column of numbers from a text     *)
(* file, search the first index-ordered combination whose sum equals a     *)
(* target, write it to result.csv.                                         *)
(*                                                                         *)
(* Numbers.  The program computes on f64.  The model's numbers are the     *)
(* integers of small magnitude: every one of them is an f64, and f64       *)
(* addition, comparison, abs, parsing and Display are exact on them, so    *)
(* the model's integer arithmetic is the program's arithmetic on this      *)
(* domain.  NaN, the infinities, -0.0 and fractions are outside it.        *)
(*                                                                         *)
(* Text.  A line, a token and a CSV field are sequences of one-character   *)
(* strings.  Indices (start, i) are 0-based as in the source; At reads a   *)
(* 0-based position of a TLA+ sequence.                                    *)
(***************************************************************************)
EXTENDS Integers, Sequences, FiniteSets

VARIABLES
    pc,          \* position of the single thread of control
    hasParent,   \* input: absolute_file_path.parent() is Some (main.rs:143)
    file,        \* input: the file at file_path, [openable, lines]
    outWritable, \* input: result.csv can be created (main.rs:103)
    target,      \* input: the target number
    rd,          \* read_numbers_from_file: its locals and its return value
    nums,        \* nums of find_first_combination
    stack,       \* the active calls of backtrack_first, the root call first
    path,        \* path of find_first_combination
    result,      \* result of find_first_combination
    cmps,        \* history: how many times `sum == target` was evaluated
    pushes,      \* history: how many times path.push was executed
    wr,          \* write_combinations_to_csv: its arguments, locals, return
    outFile,     \* result.csv as produced by this run
    calls,       \* history: the functions main has invoked, in order
    errs         \* what main has written to stderr, in order

vars == <<pc, hasParent, file, outWritable, target, rd, nums, stack, path,
          result, cmps, pushes, wr, outFile, calls, errs>>

-----------------------------------------------------------------------------
(* Bounds of the model *)

\* the longest input file, in lines (header included)
MaxLines == 4
\* the longest nums handed directly to find_first_combination
MaxLen == 3

-----------------------------------------------------------------------------
(* Values *)

None == [some |-> FALSE, v |-> <<>>]
Some(x) == [some |-> TRUE, v |-> x]

Ok(x) == [ok |-> TRUE, v |-> x]
Err == [ok |-> FALSE, v |-> <<>>]

At(s, i) == s[i + 1]

Abs(x) == IF x < 0 THEN -x ELSE x

\* path.iter().sum(): the elements added from the left
RECURSIVE Sum(_)
Sum(s) == IF s = <<>> THEN 0 ELSE Sum(SubSeq(s, 1, Len(s) - 1)) + s[Len(s)]

-----------------------------------------------------------------------------
(* Text: str::split_whitespace, f64::from_str, f64::to_string *)

DigitChars == <<"0", "1", "2", "3", "4", "5", "6", "7", "8", "9">>

IsDigit(c) == \E k \in 1..10 : DigitChars[k] = c

DigitVal(c) == (CHOOSE k \in 1..10 : DigitChars[k] = c) - 1

IsWhitespace(c) == c \in {" ", "\t"}

\* the text after its leading whitespace
RECURSIVE SkipWhitespace(_)
SkipWhitespace(s) ==
    IF s # <<>> /\ IsWhitespace(s[1]) THEN SkipWhitespace(Tail(s)) ELSE s

\* the longest prefix without whitespace
RECURSIVE TakeWord(_)
TakeWord(s) ==
    IF s = <<>> \/ IsWhitespace(s[1]) THEN <<>>
    ELSE <<s[1]>> \o TakeWord(Tail(s))

\* line.split_whitespace().collect()
RECURSIVE SplitWhitespace(_)
SplitWhitespace(s) ==
    LET t == SkipWhitespace(s)
        w == TakeWord(t)
    IN  IF t = <<>> THEN <<>>
        ELSE <<w>> \o SplitWhitespace(SubSeq(t, Len(w) + 1, Len(t)))

\* the value of a run of decimal digits
RECURSIVE DigitsValue(_)
DigitsValue(s) ==
    IF s = <<>> THEN 0
    ELSE 10 * DigitsValue(SubSeq(s, 1, Len(s) - 1)) + DigitVal(s[Len(s)])

\* f64::from_str on a token of signs, digits and letters that spells no
\* exponent, no fraction and none of inf, infinity, nan: an optional sign and
\* at least one digit
ParseF64(tok) ==
    LET signed == tok # <<>> /\ tok[1] \in {"-", "+"}
        body == IF signed THEN Tail(tok) ELSE tok
        good == body # <<>> /\ \A k \in 1..Len(body) : IsDigit(body[k])
    IN  IF ~good THEN Err
        ELSE IF signed /\ tok[1] = "-" THEN Ok(0 - DigitsValue(body))
        ELSE Ok(DigitsValue(body))

RECURSIVE NatToString(_)
NatToString(n) ==
    IF n < 10 THEN <<DigitChars[n + 1]>>
    ELSE NatToString(n \div 10) \o <<DigitChars[(n % 10) + 1]>>

\* f64::to_string (Display) of an integer-valued f64: no fraction part
ToString(x) == IF x < 0 THEN <<"-">> \o NatToString(-x) ELSE NatToString(x)


-----------------------------------------------------------------------------
(* read_numbers_from_file *)

\* the locals of read_numbers_from_file before File::open
RdIdle == [idx |-> 0, skip_header |-> TRUE, numbers |-> <<>>, ret |-> Err]

\* LineNumbers with a bug: the first token that parses, not the first token
LineNumbersAnyToken(text) ==
    LET parts == SplitWhitespace(text)
        good == {k \in 1..Len(parts) : ParseF64(parts[k]).ok}
    IN  IF good = {} THEN <<>>
        ELSE <<ParseF64(parts[CHOOSE k \in good : \A j \in good : k <= j]).v>>

\* lines 43-48: what one line after the header adds to numbers
LineNumbers(text) ==
    LET parts == SplitWhitespace(text)
    IN  IF parts = <<>> THEN <<>>
        ELSE IF ParseF64(parts[1]).ok THEN <<ParseF64(parts[1]).v>>
        ELSE <<>>

\* lines 31-35: File::open(file_path)?, then the locals
ReadOpen ==
    /\ pc = "read_open"
    /\ IF file.openable
       THEN /\ rd' = [idx |-> 0, skip_header |-> TRUE, numbers |-> <<>>,
                      ret |-> Err]
            /\ pc' = "read_loop"
       ELSE /\ rd' = [rd EXCEPT !.ret = Err]
            /\ pc' = "read_ret"
    /\ UNCHANGED <<hasParent, file, outWritable, target, nums, stack, path,
                   result, cmps, pushes, wr, outFile, calls, errs>>

\* lines 37-49: one iteration of `for line in reader.lines()`
ReadLine ==
    /\ pc = "read_loop"
    /\ rd.idx < Len(file.lines)
    /\ LET line == At(file.lines, rd.idx)
       IN  IF ~line.ok
           THEN /\ rd' = [rd EXCEPT !.ret = Err]
                /\ pc' = "read_ret"
           ELSE IF rd.skip_header
           THEN /\ rd' = [rd EXCEPT !.skip_header = FALSE, !.idx = @ + 1]
                /\ pc' = pc
           ELSE /\ rd' = [rd EXCEPT
                            !.numbers = @ \o LineNumbers(line.text),
                            !.idx = @ + 1]
                /\ pc' = pc
    /\ UNCHANGED <<hasParent, file, outWritable, target, nums, stack, path,
                   result, cmps, pushes, wr, outFile, calls, errs>>

\* line 51: the lines are exhausted, Ok(numbers)
ReadEnd ==
    /\ pc = "read_loop"
    /\ rd.idx >= Len(file.lines)
    /\ rd' = [rd EXCEPT !.ret = Ok(rd.numbers)]
    /\ pc' = "read_ret"
    /\ UNCHANGED <<hasParent, file, outWritable, target, nums, stack, path,
                   result, cmps, pushes, wr, outFile, calls, errs>>

-----------------------------------------------------------------------------
(* find_first_combination, backtrack_first *)

\* a call of backtrack_first: its start, its loop variable i, where it is
\* ("entry": line 71, "loop": line 85, "after": line 88, its recursive call
\* has returned) and, as history, path as it was on entry
Frame(start, entry) ==
    [start |-> start, i |-> start, at |-> "entry", entry |-> entry]

Top(stk) == stk[Len(stk)]

Pop(stk) == SubSeq(stk, 1, Len(stk) - 1)

\* Classify with a bug: a sum beyond the target counts as a match
ClassifyAtLeast(sum, t) ==
    IF sum >= t THEN "match"
    ELSE IF sum > Abs(t) THEN "prune"
    ELSE "expand"

\* Classify with a bug: a sum of zero never matches (the empty path is skipped)
ClassifyNonZero(sum, t) ==
    IF sum = t /\ sum # 0 THEN "match"
    ELSE IF sum > Abs(t) THEN "prune"
    ELSE "expand"

\* Classify with a bug: the bound is tested first, and includes the target
ClassifyPruneFirst(sum, t) ==
    IF sum >= Abs(t) THEN "prune"
    ELSE IF sum = t THEN "match"
    ELSE "expand"

\* lines 77-83: what a call does with the sum of path
Classify(sum, t) ==
    IF sum = t THEN "match"
    ELSE IF sum > Abs(t) THEN "prune"
    ELSE "expand"

\* NextStart with a bug: the recursive call may select index i again
NextStartSame(i) == i

\* line 87: the start of the recursive call made for index i
NextStart(i) == i + 1

\* PopPath with a bug: the pop is missing
PopPathMissing(p) == p

\* line 88: path.pop()
PopPath(p) == SubSeq(p, 1, Len(p) - 1)

\* FoundAfterChild with a bug: the loop never breaks
FoundAfterChildNever(r) == FALSE

\* line 89: result.is_some()
FoundAfterChild(r) == r.some

\* lines 56-59: the locals, and the root call
FindStart ==
    /\ pc = "find"
    /\ result' = None
    /\ path' = <<>>
    /\ stack' = <<Frame(0, <<>>)>>
    /\ pc' = "bt"
    /\ UNCHANGED <<hasParent, file, outWritable, target, rd, nums, cmps,
                   pushes, wr, outFile, calls, errs>>

\* lines 71-83: the entry of a call
BtEnter ==
    /\ pc = "bt"
    /\ stack # <<>>
    /\ Top(stack).at = "entry"
    /\ IF result.some
       THEN /\ stack' = Pop(stack)
            /\ UNCHANGED <<result, cmps>>
       ELSE LET sum == Sum(path)
                what == Classify(sum, target)
            IN  /\ cmps' = cmps + 1
                /\ IF what = "match"
                   THEN /\ result' = Some(path)
                        /\ stack' = Pop(stack)
                   ELSE IF what = "prune"
                   THEN /\ stack' = Pop(stack)
                        /\ UNCHANGED result
                   ELSE /\ stack' = [stack EXCEPT ![Len(stack)].at = "loop"]
                        /\ UNCHANGED result
    /\ UNCHANGED <<pc, hasParent, file, outWritable, target, rd, nums, path,
                   pushes, wr, outFile, calls, errs>>

\* lines 85-87: the loop head; path.push(nums[i]) and the recursive call
BtLoop ==
    /\ pc = "bt"
    /\ stack # <<>>
    /\ Top(stack).at = "loop"
    /\ LET f == Top(stack)
       IN  IF f.i < Len(nums)
           THEN /\ path' = Append(path, At(nums, f.i))
                /\ pushes' = pushes + 1
                /\ stack' = Append([stack EXCEPT ![Len(stack)].at = "after"],
                                   Frame(NextStart(f.i), path'))
           ELSE /\ stack' = Pop(stack)
                /\ UNCHANGED <<path, pushes>>
    /\ UNCHANGED <<pc, hasParent, file, outWritable, target, rd, nums, result,
                   cmps, wr, outFile, calls, errs>>

\* lines 88-91: the recursive call has returned; pop, and break when found
BtAfterCall ==
    /\ pc = "bt"
    /\ stack # <<>>
    /\ Top(stack).at = "after"
    /\ path' = PopPath(path)
    /\ IF FoundAfterChild(result)
       THEN stack' = Pop(stack)
       ELSE stack' = [stack EXCEPT ![Len(stack)].i = @ + 1,
                                   ![Len(stack)].at = "loop"]
    /\ UNCHANGED <<pc, hasParent, file, outWritable, target, rd, nums, result,
                   cmps, pushes, wr, outFile, calls, errs>>

\* line 60: the root call has returned; find_first_combination returns result
FindReturn ==
    /\ pc = "bt"
    /\ stack = <<>>
    /\ pc' = "find_ret"
    /\ UNCHANGED <<hasParent, file, outWritable, target, rd, nums, stack,
                   path, result, cmps, pushes, wr, outFile, calls, errs>>

-----------------------------------------------------------------------------
(* write_combinations_to_csv *)

\* the state of write_combinations_to_csv before it is called
WrIdle == [combinations |-> <<>>, i |-> 0, ret |-> Err]

\* result.csv before the writer has created it
NoFile == [exists |-> FALSE, rows |-> <<>>]

\* MaxLength with a bug: the number of combinations, not the length of the first
MaxLengthOuter(combinations) == Len(combinations)

\* lines 105-107: the number of rows, the length of the first combination
MaxLength(combinations) ==
    IF combinations = <<>> THEN 0 ELSE Len(combinations[1])

\* lines 110-117: row i, one field per combination, "" where it is too short
Record(combinations, i) ==
    [c \in 1..Len(combinations) |->
        IF i < Len(combinations[c]) THEN ToString(At(combinations[c], i))
        ELSE <<>>]

\* lines 100-103: from_path creates (truncates) the file; has_headers(false)
WriteOpen ==
    /\ pc = "write_open"
    /\ IF outWritable
       THEN /\ outFile' = [exists |-> TRUE, rows |-> <<>>]
            /\ wr' = [wr EXCEPT !.i = 0]
            /\ pc' = "write_rows"
       ELSE /\ wr' = [wr EXCEPT !.ret = Err]
            /\ pc' = "write_ret"
            /\ UNCHANGED outFile
    /\ UNCHANGED <<hasParent, file, outWritable, target, rd, nums, stack,
                   path, result, cmps, pushes, calls, errs>>

\* lines 109-119: one iteration of `for i in 0..max_length`
WriteRow ==
    /\ pc = "write_rows"
    /\ wr.i < MaxLength(wr.combinations)
    /\ outFile' = [outFile EXCEPT
                     !.rows = Append(@, Record(wr.combinations, wr.i))]
    /\ wr' = [wr EXCEPT !.i = @ + 1]
    /\ UNCHANGED <<pc, hasParent, file, outWritable, target, rd, nums, stack,
                   path, result, cmps, pushes, calls, errs>>

\* lines 122-123: flush, Ok(())
WriteEnd ==
    /\ pc = "write_rows"
    /\ wr.i >= MaxLength(wr.combinations)
    /\ wr' = [wr EXCEPT !.ret = Ok(<<>>)]
    /\ pc' = "write_ret"
    /\ UNCHANGED <<hasParent, file, outWritable, target, rd, nums, stack,
                   path, result, cmps, pushes, outFile, calls, errs>>

-----------------------------------------------------------------------------
(* main *)

\* ShouldWrite with a bug: the writer is called whatever the search returned
ShouldWriteAlways(r) == TRUE

\* line 163: `if let Some(combination) = first_combination`
ShouldWrite(r) == r.some

\* lines 137-155: the output path, then the call of read_numbers_from_file
MainStart ==
    /\ pc = "start"
    /\ IF hasParent
       THEN /\ calls' = Append(calls, "read")
            /\ pc' = "read_open"
            /\ UNCHANGED errs
       ELSE /\ errs' = Append(errs, "Failed to get parent directory")
            /\ pc' = "done"
            /\ UNCHANGED calls
    /\ UNCHANGED <<hasParent, file, outWritable, target, rd, nums, stack,
                   path, result, cmps, pushes, wr, outFile>>

\* lines 155-157, 171: the match on what the reader returned
MainAfterRead ==
    /\ pc = "read_ret"
    /\ IF rd.ret.ok
       THEN /\ nums' = rd.ret.v
            /\ calls' = Append(calls, "search")
            /\ pc' = "find"
            /\ UNCHANGED errs
       ELSE /\ errs' = Append(errs, "Failed to read numbers from file")
            /\ pc' = "end"
            /\ UNCHANGED <<nums, calls>>
    /\ UNCHANGED <<hasParent, file, outWritable, target, rd, stack, path,
                   result, cmps, pushes, wr, outFile>>

\* lines 157-164, 169: the result is printed, and written when present
MainAfterFind ==
    /\ pc = "find_ret"
    /\ IF ShouldWrite(result)
       THEN /\ wr' = [combinations |-> <<result.v>>, i |-> 0, ret |-> Err]
            /\ calls' = Append(calls, "write")
            /\ pc' = "write_open"
       ELSE /\ pc' = "end"
            /\ UNCHANGED <<wr, calls>>
    /\ UNCHANGED <<hasParent, file, outWritable, target, rd, nums, stack,
                   path, result, cmps, pushes, outFile, errs>>

\* lines 164-168: the match on what the writer returned
MainAfterWrite ==
    /\ pc = "write_ret"
    /\ IF wr.ret.ok
       THEN UNCHANGED errs
       ELSE errs' = Append(errs, "Failed to write combination to CSV")
    /\ pc' = "end"
    /\ UNCHANGED <<hasParent, file, outWritable, target, rd, nums, stack,
                   path, result, cmps, pushes, wr, outFile, calls>>

\* lines 174-177: the elapsed time is printed
MainEnd ==
    /\ pc = "end"
    /\ pc' = "done"
    /\ UNCHANGED <<hasParent, file, outWritable, target, rd, nums, stack,
                   path, result, cmps, pushes, wr, outFile, calls, errs>>

-----------------------------------------------------------------------------
(* Inputs *)

SeqsUpTo(S, n) == UNION {[1..k -> S] : k \in 0..n}

TextLine(text) == [ok |-> TRUE, text |-> text]

\* a line that `line?` rejects (its bytes are not UTF-8)
BadLine == [ok |-> FALSE, text |-> <<>>]

LineValue == TextLine(<<"v", "a", "l", "u", "e">>)
LineTenApples == TextLine(<<"1", "0", " ", "a", "p", "p", "l", "e", "s">>)
LineAbc == TextLine(<<"a", "b", "c">>)
LineFive == TextLine(<<"5">>)
LineEmpty == TextLine(<<>>)
LineMinusTwo == TextLine(<<" ", "-", "2", "\t", "x">>)
LineXSeven == TextLine(<<"x", " ", "7">>)
LineThreeA == TextLine(<<"3", "a">>)

ReaderLines ==
    {LineValue, LineTenApples, LineAbc, LineFive, LineEmpty, LineMinusTwo,
     LineXSeven, LineThreeA, BadLine}

DriverLines == {LineValue, LineTenApples, LineFive, LineMinusTwo, BadLine}

Unopenable == [openable |-> FALSE, lines |-> <<>>]

FilesOf(lines) ==
    {[openable |-> TRUE, lines |-> l] : l \in SeqsUpTo(lines, MaxLines)}
        \cup {Unopenable}

\* the numbers and the targets handed directly to find_first_combination
Values == {-2, 0, 1, 2, 3, 4, 6}
Targets == {-2, 0, 3, 5}

\* the targets given to the driver
DriverTargets == {0, 8, 15}

-----------------------------------------------------------------------------
(* Specifications *)

\* the program: main from its first statement after Args::parse
Init ==
    /\ pc = "start"
    /\ hasParent \in BOOLEAN
    /\ file \in FilesOf(DriverLines)
    /\ hasParent = FALSE => file = Unopenable
    /\ outWritable \in BOOLEAN
    /\ target \in DriverTargets
    /\ rd = RdIdle
    /\ nums = <<>>
    /\ stack = <<>>
    /\ path = <<>>
    /\ result = None
    /\ cmps = 0
    /\ pushes = 0
    /\ wr = WrIdle
    /\ outFile = NoFile
    /\ calls = <<>>
    /\ errs = <<>>

Next ==
    \/ MainStart
    \/ ReadOpen
    \/ ReadLine
    \/ ReadEnd
    \/ MainAfterRead
    \/ FindStart
    \/ BtEnter
    \/ BtLoop
    \/ BtAfterCall
    \/ FindReturn
    \/ MainAfterFind
    \/ WriteOpen
    \/ WriteRow
    \/ WriteEnd
    \/ MainAfterWrite
    \/ MainEnd

Spec == Init /\ [][Next]_vars

\* read_numbers_from_file alone, on every file of the bound
ReaderInit ==
    /\ pc = "read_open"
    /\ hasParent = TRUE
    /\ file \in FilesOf(ReaderLines)
    /\ outWritable = TRUE
    /\ target = 0
    /\ rd = RdIdle
    /\ nums = <<>>
    /\ stack = <<>>
    /\ path = <<>>
    /\ result = None
    /\ cmps = 0
    /\ pushes = 0
    /\ wr = WrIdle
    /\ outFile = NoFile
    /\ calls = <<"read">>
    /\ errs = <<>>

ReaderNext == ReadOpen \/ ReadLine \/ ReadEnd

ReaderSpec == ReaderInit /\ [][ReaderNext]_vars

\* find_first_combination alone, on every nums and target of the bound
SearchInit ==
    /\ pc = "find"
    /\ hasParent = TRUE
    /\ file = Unopenable
    /\ outWritable = TRUE
    /\ target \in Targets
    /\ rd = RdIdle
    /\ nums \in SeqsUpTo(Values, MaxLen)
    /\ stack = <<>>
    /\ path = <<>>
    /\ result = None
    /\ cmps = 0
    /\ pushes = 0
    /\ wr = WrIdle
    /\ outFile = NoFile
    /\ calls = <<"read", "search">>
    /\ errs = <<>>

SearchNext == FindStart \/ BtEnter \/ BtLoop \/ BtAfterCall \/ FindReturn

SearchSpec == SearchInit /\ [][SearchNext]_vars

\* the search runs on one thread that never stops by itself
SearchFairSpec == SearchSpec /\ WF_vars(SearchNext)

-----------------------------------------------------------------------------
(* Vocabulary of the properties *)

Min(S) == CHOOSE x \in S : \A y \in S : x <= y
Max(S) == CHOOSE x \in S : \A y \in S : x >= y

\* the elements of s at the (1-based) positions of S, in increasing position
RECURSIVE SelectFrom(_, _, _)
SelectFrom(s, S, k) ==
    IF k > Len(s) THEN <<>>
    ELSE (IF k \in S THEN <<s[k]>> ELSE <<>>) \o SelectFrom(s, S, k + 1)

Select(s, S) == SelectFrom(s, S, 1)

\* every index-combination of s: a set of positions, read in increasing order
IndexSets(s) == SUBSET (1..Len(s))

\* the index-combinations of s whose elements, added in order, give t
Solutions(s, t) == {S \in IndexSets(s) : Sum(Select(s, S)) = t}

\* S comes before T in the lexicographic order of increasing index sequences,
\* a prefix before its extensions: the order of an index-ordered depth-first
\* enumeration of all subsets
Before(S, T) ==
    /\ S # T
    /\ LET m == Min((S \ T) \cup (T \ S))
       IN  IF m \in S THEN \E x \in T : x > m
           ELSE ~ \E x \in S : x > m

First(sols) == CHOOSE S \in sols : \A T \in sols \ {S} : Before(S, T)

NonNegative(s) == \A k \in 1..Len(s) : s[k] >= 0

\* the first whitespace-delimited token of a text, <<>> when it has none
FirstWord(text) ==
    LET nw == {k \in 1..Len(text) : ~IsWhitespace(text[k])}
    IN  IF nw = {} THEN <<>>
        ELSE LET a == Min(nw)
                 b == Max({j \in a..Len(text) : \A k \in a..j : k \in nw})
             IN  SubSeq(text, a, b)

\* the numbers of the lines k.. of a file
RECURSIVE NumbersFrom(_, _)
NumbersFrom(lines, k) ==
    IF k > Len(lines) THEN <<>>
    ELSE LET w == FirstWord(lines[k].text)
         IN  (IF w # <<>> /\ ParseF64(w).ok THEN <<ParseF64(w).v>> ELSE <<>>)
                 \o NumbersFrom(lines, k + 1)

Readable(f) == f.openable /\ \A k \in 1..Len(f.lines) : f.lines[k].ok

IsPrefix(a, b) == Len(a) <= Len(b) /\ a = SubSeq(b, 1, Len(a))

-----------------------------------------------------------------------------
(* Properties *)

\* C1: a present result holds the values of nums at a strictly increasing
\* sequence of indices, and its elements added in order give the target.
C1_ResultIsExactSubsequence ==
    result.some =>
        /\ \E S \in IndexSets(nums) : Select(nums, S) = result.v
        /\ Sum(result.v) = target

C1_Witness ==
    /\ pc = "find_ret"
    /\ result.some
    /\ Len(result.v) >= 2
    /\ Len(result.v) < Len(nums)

\* C2: whenever some index-combination sums to the target, the search returns
\* the one whose index sequence is lexicographically smallest.
C2_FirstOfAllSolutions ==
    (pc = "find_ret" /\ Solutions(nums, target) # {}) =>
        result = Some(Select(nums, First(Solutions(nums, target))))

\* C3: for target 0 the search returns the empty combination, from the root
\* call, and nothing is ever pushed onto path.
C3_ZeroTargetEmptyResult ==
    target = 0 =>
        /\ pushes = 0
        /\ path = <<>>
        /\ Len(stack) <= 1
        /\ pc = "find_ret" => result = Some(<<>>)

C3_Witness ==
    /\ pc = "find_ret"
    /\ target = 0
    /\ result = Some(<<>>)
    /\ \E k \in 1..Len(nums) : nums[k] = 0
    /\ \E k \in 1..Len(nums) : nums[k] < 0

\* C4: on a readable file the reader returns, without error and in order, the
\* parsed first token of each line after the first whose first token is a
\* number; the first line and every other line add nothing.
C4_ReaderContract ==
    (pc = "read_ret" /\ Readable(file)) =>
        rd.ret = Ok(NumbersFrom(file.lines, 2))

C4_Witness ==
    /\ pc = "read_ret"
    /\ file.lines = <<LineValue, LineTenApples, LineAbc, LineFive>>
    /\ rd.ret = Ok(<<10, 5>>)

\* C5: main invokes read, then search, then write; search only after a read
\* that succeeded, write only after a search that returned a present result;
\* a failed read is reported and leaves no output file; an absent result
\* leaves no output file.
C5_ReadSearchWriteOrder ==
    /\ IsPrefix(calls, <<"read", "search", "write">>)
    /\ Len(calls) >= 2 => rd.ret.ok
    /\ Len(calls) >= 3 => rd.ret.ok /\ result.some
    /\ outFile.exists => Len(calls) >= 3
    /\ (pc \in {"end", "done"} /\ calls = <<"read">>) =>
          /\ ~rd.ret.ok
          /\ errs = <<"Failed to read numbers from file">>
          /\ ~outFile.exists
    /\ (pc \in {"end", "done"} /\ Len(calls) >= 2 /\ ~result.some) =>
          /\ calls = <<"read", "search">>
          /\ ~outFile.exists

C5_Witness ==
    /\ pc = "done"
    /\ calls = <<"read", "search", "write">>
    /\ outFile.exists
    /\ nums # <<>>

\* C6: when the writer, given the found combination alone, returns Ok, the
\* file holds one row per element and nothing else, each row one field, the
\* text of that element, in the order of the combination.
C6_OneRowPerElement ==
    (pc \in {"write_ret", "end", "done"} /\ Len(calls) >= 3 /\ wr.ret.ok) =>
        /\ outFile.exists
        /\ wr.combinations = <<result.v>>
        /\ Len(outFile.rows) = Len(result.v)
        /\ \A i \in 1..Len(outFile.rows) :
              /\ Len(outFile.rows[i]) = 1
              /\ outFile.rows[i][1] = ToString(result.v[i])
              /\ ParseF64(outFile.rows[i][1]) = Ok(result.v[i])

C6_Witness ==
    /\ pc = "done"
    /\ wr.ret.ok
    /\ result.v = <<-2, 10>>
    /\ outFile.rows = << << <<"-", "2">> >>, << <<"1", "0">> >> >>

\* C7: when no number of nums is negative, the search returns absent exactly
\* when no index-combination sums to the target.
C7_NonNegativeAbsentIffNone ==
    (pc = "find_ret" /\ NonNegative(nums)) =>
        (~result.some <=> Solutions(nums, target) = {})

C7_Witness ==
    /\ pc = "find_ret"
    /\ nums = <<2, 4, 6>>
    /\ target = 5
    /\ ~result.some

\* C8: once a result is recorded it never changes, nothing is pushed and no
\* sum is compared; every later step of the search returns from one call,
\* popping path when the call was in its loop.
C8_FirstMatchOnly ==
    [][result.some =>
          /\ result' = result
          /\ pushes' = pushes
          /\ cmps' = cmps
          /\ stack # <<>> =>
                /\ Top(stack).at = "after"
                /\ stack' = Pop(stack)
                /\ path' = PopPath(path)]_vars

C8_Witness ==
    /\ result.some
    /\ Len(stack) >= 2
    /\ Top(stack).at = "after"
    /\ Top(stack).i + 1 < Len(nums)

\* C9: every call returns with path as it was on entry, path is empty when
\* find_first_combination returns, and nums is never modified.
C9_PathRestored ==
    [][/\ Len(stack') < Len(stack) => path' = Top(stack).entry
       /\ pc' = "find_ret" => path' = <<>>
       /\ nums' = nums]_vars

C9_Witness ==
    /\ pc = "find_ret"
    /\ path = <<>>
    /\ pushes > Len(nums)
    /\ ~result.some

\* C10: the search returns, and meanwhile the recursive calls below the root
\* call are at most one per selected number, hence at most Len(nums).
C10_TerminatesWithinDepth ==
    /\ <>(pc = "find_ret")
    /\ [](stack # <<>> => Len(stack) - 1 <= Len(path) /\ Len(path) <= Len(nums))

C10_Witness ==
    /\ Len(stack) = Len(nums) + 1
    /\ Len(nums) = MaxLen
    /\ Solutions(nums, target) = {}

=============================================================================
